---- MODULE Spec2Model ----
(***************************************************************************)
(* A model of trade_indicator_generator.py: the CSV-to-Pine-Script trade   *)
(* plotter.  Seven specifications share the operators below:               *)
(*   Spec            one run of main(): arguments, CSV, date-source        *)
(*                   detection, consolidation, rendering, file write;      *)
(*   SpecGenerate    generate_pinescript on frames of many column layouts; *)
(*   SpecConsolidate consolidate_trades on the frames it can be handed;    *)
(*   SpecMatch       the generated Pine functions is_trade_datetime and    *)
(*                   is_trade_time, evaluated on a chart bar;              *)
(*   SpecAdjust      the same functions at every bar interval from one     *)
(*                   second up;                                            *)
(*   SpecParse       parse_date and parse_date_from_cloid on one cell;     *)
(*   SpecSummary     generate_pinescript on frames of the required columns *)
(*                   with trades of several sides, times and symbols.      *)
(* CSV text is modelled as sequences of one-character strings so that the  *)
(* parsers work on characters as the Python code does.                     *)
(***************************************************************************)
EXTENDS Integers, Sequences, FiniteSets, TLC

\* ------------------------------------------------------------------------
\* Characters and strings
\* ------------------------------------------------------------------------

\* Python's None where the code returns it in place of a number.
None == -1

Digits == <<"0", "1", "2", "3", "4", "5", "6", "7", "8", "9">>

Uppers == <<"A", "B", "C", "D", "E", "F", "G", "H", "I", "J", "K", "L", "M",
            "N", "O", "P", "Q", "R", "S", "T", "U", "V", "W", "X", "Y", "Z">>

Lowers == <<"a", "b", "c", "d", "e", "f", "g", "h", "i", "j", "k", "l", "m",
            "n", "o", "p", "q", "r", "s", "t", "u", "v", "w", "x", "y", "z">>

\* The characters of the modelled CSV texts, in code-point order.
Alphabet == <<" ", "(", ")", ",", "-", ".", "/">> \o Digits \o <<":">>
            \o Uppers \o <<"_">> \o Lowers

Range(f) == {f[i] : i \in DOMAIN f}

IndexOf(seq, c) == CHOOSE i \in DOMAIN seq : seq[i] = c

isdigit(c) == c \in Range(Digits)

isalpha(c) == c \in Range(Uppers) \cup Range(Lowers)

DigitVal(c) == IndexOf(Digits, c) - 1

Ord(c) == IndexOf(Alphabet, c)

\* s[a..b] as Python's s[a-1:b]: clipped to the string, never an error.
Slice(s, a, b) == IF a > b \/ a > Len(s) THEN <<>>
                  ELSE SubSeq(s, a, IF b > Len(s) THEN Len(s) ELSE b)

AllDigits(s) == s # <<>> /\ \A i \in DOMAIN s : isdigit(s[i])

RECURSIVE int(_)
int(s) == IF s = <<>> THEN 0
          ELSE 10 * int(SubSeq(s, 1, Len(s) - 1)) + DigitVal(s[Len(s)])

RECURSIVE strip(_)
strip(s) == IF s = <<>> THEN s
            ELSE IF Head(s) = " " THEN strip(Tail(s))
            ELSE IF s[Len(s)] = " " THEN strip(SubSeq(s, 1, Len(s) - 1))
            ELSE s

upper(s) == [i \in DOMAIN s |->
               IF s[i] \in Range(Lowers) THEN Uppers[IndexOf(Lowers, s[i])] ELSE s[i]]

lower(s) == [i \in DOMAIN s |->
               IF s[i] \in Range(Uppers) THEN Lowers[IndexOf(Uppers, s[i])] ELSE s[i]]

\* Lexicographic order of strings by code point (Python's str comparison).
RECURSIVE StrLess(_, _)
StrLess(a, b) == IF b = <<>> THEN FALSE
                 ELSE IF a = <<>> THEN TRUE
                 ELSE IF Head(a) # Head(b) THEN Ord(Head(a)) < Ord(Head(b))
                 ELSE StrLess(Tail(a), Tail(b))

\* ------------------------------------------------------------------------
\* datetime.strptime
\* ------------------------------------------------------------------------

\* One alternative of a directive's regular expression: `len` characters,
\* all digits (after one leading space when sp), whose value is in lo..hi.
Alt(len, lo, hi, sp) == [len |-> len, lo |-> lo, hi |-> hi, sp |-> sp]

\* The alternatives of each directive, in the order the regex tries them.
DirectiveAlts(tok) ==
  CASE tok = "%H" -> <<Alt(2, 20, 23, FALSE), Alt(2, 0, 19, FALSE), Alt(1, 0, 9, FALSE)>>
    [] tok = "%M" -> <<Alt(2, 0, 59, FALSE), Alt(1, 0, 9, FALSE)>>
    [] tok = "%S" -> <<Alt(2, 60, 61, FALSE), Alt(2, 0, 59, FALSE), Alt(1, 0, 9, FALSE)>>
    [] tok = "%Y" -> <<Alt(4, 0, 9999, FALSE)>>
    [] tok = "%y" -> <<Alt(2, 0, 99, FALSE)>>
    [] tok = "%m" -> <<Alt(2, 10, 12, FALSE), Alt(2, 1, 9, FALSE), Alt(1, 1, 9, FALSE)>>
    [] tok = "%d" -> <<Alt(2, 30, 31, FALSE), Alt(2, 10, 29, FALSE), Alt(2, 1, 9, FALSE),
                       Alt(1, 1, 9, FALSE), Alt(2, 1, 9, TRUE)>>

IsDirective(tok) == tok \in {"%H", "%M", "%S", "%Y", "%y", "%m", "%d"}

AltFits(a, s, pos) ==
  /\ pos + a.len - 1 <= Len(s)
  /\ LET txt == SubSeq(s, pos, pos + a.len - 1)
         num == IF a.sp THEN Tail(txt) ELSE txt
     IN /\ a.sp => Head(txt) = " "
        /\ AllDigits(num)
        /\ int(num) >= a.lo /\ int(num) <= a.hi

AltValue(a, s, pos) ==
  LET txt == SubSeq(s, pos, pos + a.len - 1)
  IN int(IF a.sp THEN Tail(txt) ELSE txt)

NoMatch == [ok |-> FALSE, end |-> 0, vals |-> <<>>]

\* The regex match of format `fmt` against s from position pos: the first
\* match in the regex's backtracking order, not anchored at the end.
RECURSIVE StrpMatch(_, _, _)
RECURSIVE TryAlts(_, _, _, _)
StrpMatch(fmt, s, pos) ==
  IF fmt = <<>> THEN [ok |-> TRUE, end |-> pos, vals |-> <<>>]
  ELSE IF IsDirective(Head(fmt)) THEN TryAlts(DirectiveAlts(Head(fmt)), fmt, s, pos)
  ELSE IF pos <= Len(s) /\ s[pos] = Head(fmt) THEN StrpMatch(Tail(fmt), s, pos + 1)
  ELSE NoMatch

TryAlts(alts, fmt, s, pos) ==
  IF alts = <<>> THEN NoMatch
  ELSE LET a == Head(alts)
           rest == StrpMatch(Tail(fmt), s, pos + a.len)
       IN IF AltFits(a, s, pos) /\ rest.ok
          THEN [ok |-> TRUE, end |-> rest.end,
                vals |-> <<AltValue(a, s, pos)>> \o rest.vals]
          ELSE TryAlts(Tail(alts), fmt, s, pos)

Directives(fmt) == SelectSeq(fmt, IsDirective)

\* The value matched for directive tok, or dflt when fmt has no such directive.
Field(ds, vals, tok, dflt) ==
  IF \E i \in DOMAIN ds : ds[i] = tok THEN vals[IndexOf(ds, tok)] ELSE dflt

IsLeap(y) == y % 4 = 0 /\ (y % 100 # 0 \/ y % 400 = 0)

DaysInMonth(y, m) == IF m = 2 THEN (IF IsLeap(y) THEN 29 ELSE 28)
                     ELSE IF m \in {4, 6, 9, 11} THEN 30 ELSE 31

ValueError == [ok |-> FALSE, year |-> None, month |-> None, day |-> None,
               hour |-> None, minute |-> None, second |-> None]

\* %y maps 00..68 to 20xx and 69..99 to 19xx; the year defaults to 1900.
YearOf(yy, yyyy) == IF yy = None THEN yyyy ELSE IF yy <= 68 THEN 2000 + yy ELSE 1900 + yy

\* The datetime constructor rejects year 0, a day past the month's end and
\* second 60 or 61.
datetime(year, month, day, hour, minute, second) ==
  IF year < 1 \/ day > DaysInMonth(year, month) \/ second > 59
  THEN ValueError
  ELSE [ok |-> TRUE, year |-> year, month |-> month, day |-> day,
        hour |-> hour, minute |-> minute, second |-> second]

\* The datetime of a regex match m of a string of length n: the whole
\* string must have been consumed.
FromMatch(ds, m, n) ==
  IF ~m.ok \/ m.end # n + 1 THEN ValueError
  ELSE datetime(YearOf(Field(ds, m.vals, "%y", None), Field(ds, m.vals, "%Y", 1900)),
                Field(ds, m.vals, "%m", 1), Field(ds, m.vals, "%d", 1),
                Field(ds, m.vals, "%H", 0), Field(ds, m.vals, "%M", 0),
                Field(ds, m.vals, "%S", 0))

\* datetime.strptime(s, fmt)
strptime(s, fmt) == FromMatch(Directives(fmt), StrpMatch(fmt, s, 1), Len(s))

\* ------------------------------------------------------------------------
\* Cells of a DataFrame
\* ------------------------------------------------------------------------

\* A cell is NaN (an empty CSV field), a string, or a (year, month, day)
\* tuple as stored in the 'Date' column the program adds.
NaN == [kind |-> "nan", s |-> <<>>, ymd |-> <<>>]

Str(s) == [kind |-> "str", s |-> s, ymd |-> <<>>]

Tup(y, m, d) == [kind |-> "tuple", s |-> <<>>, ymd |-> <<y, m, d>>]

NoneTuple == Tup(None, None, None)

isna(cell) == cell.kind = "nan"

\* ------------------------------------------------------------------------
\* The parsers
\* ------------------------------------------------------------------------

\* parse_time: HH:MM:SS, else HH:MM with second 0, else (None, None, None).
TimeOf(full, short) ==
  IF full.ok THEN <<full.hour, full.minute, full.second>>
  ELSE IF short.ok THEN <<short.hour, short.minute, 0>>
  ELSE <<None, None, None>>

parse_time(time_str) ==
  TimeOf(strptime(time_str, <<"%H", ":", "%M", ":", "%S">>),
         strptime(time_str, <<"%H", ":", "%M">>))

\* A variant of date_formats that tries day-first before month-first.
DayFirstFormats == << <<"%Y", "-", "%m", "-", "%d">>,
                      <<"%d", "/", "%m", "/", "%Y">>,
                      <<"%m", "/", "%d", "/", "%Y">>,
                      <<"%m", "/", "%d", "/", "%y">>,
                      <<"%Y", "%m", "%d">>,
                      <<"%m", "-", "%d", "-", "%Y">> >>

date_formats == << <<"%Y", "-", "%m", "-", "%d">>,
                   <<"%m", "/", "%d", "/", "%Y">>,
                   <<"%m", "/", "%d", "/", "%y">>,
                   <<"%Y", "%m", "%d">>,
                   <<"%m", "-", "%d", "-", "%Y">>,
                   <<"%d", "/", "%m", "/", "%Y">> >>

RECURSIVE TryFormats(_, _)
FirstFormat(r, s, fmts) ==
  IF r.ok THEN Tup(r.year, r.month, r.day) ELSE TryFormats(s, Tail(fmts))

TryFormats(s, fmts) ==
  IF fmts = <<>> THEN NoneTuple
  ELSE FirstFormat(strptime(s, Head(fmts)), s, fmts)

\* parse_date: NaN and '' give the empty result; otherwise the first of
\* date_formats that accepts the stripped text.  str() of a tuple cell
\* starts with "(" and no format accepts it.
parse_date(cell) ==
  IF isna(cell) \/ cell = Str(<<>>) THEN NoneTuple
  ELSE IF cell.kind = "tuple" THEN NoneTuple
  ELSE TryFormats(strip(cell.s), date_formats)

\* parse_date_from_cloid: a letter, then six digits YYMMDD.
CloidYMD(date_part) ==
  IF Len(date_part) = 6 /\ AllDigits(date_part)
  THEN <<2000 + int(Slice(date_part, 1, 2)), int(Slice(date_part, 3, 4)),
         int(Slice(date_part, 5, 6))>>
  ELSE <<None, None, None>>

\* A variant of ValidCloidDate that checks the day against the month.
ValidCalendarDate(ymd) ==
  IF ymd[1] # None /\ 1 <= ymd[2] /\ ymd[2] <= 12 /\ 1 <= ymd[3]
     /\ ymd[3] <= DaysInMonth(ymd[1], ymd[2])
  THEN Tup(ymd[1], ymd[2], ymd[3])
  ELSE NoneTuple

ValidCloidDate(ymd) ==
  IF ymd[1] # None /\ 1 <= ymd[2] /\ ymd[2] <= 12 /\ 1 <= ymd[3] /\ ymd[3] <= 31
  THEN Tup(ymd[1], ymd[2], ymd[3])
  ELSE NoneTuple

CloidOf(cloid_str) ==
  IF Len(cloid_str) >= 7 /\ isalpha(cloid_str[1])
  THEN ValidCloidDate(CloidYMD(Slice(cloid_str, 2, 7)))
  ELSE NoneTuple

parse_date_from_cloid(cell) ==
  IF isna(cell) \/ cell = Str(<<>>) THEN NoneTuple
  ELSE IF cell.kind = "tuple" THEN NoneTuple
  ELSE CloidOf(strip(cell.s))

\* ------------------------------------------------------------------------
\* DataFrames
\* ------------------------------------------------------------------------

\* A DataFrame is [columns, rows].  A row is a record with one field per
\* required trade column (Time, Symbol, Side as strings; Price, Qty as
\* numbers) and `cells`, a function from the other column names to cells.
\* `columns` says which columns exist, in order.

required_columns == <<"Time", "Symbol", "Side", "Price", "Qty">>

\* The names the right-to-left scan skips (line 132).
KnownColumns == {"Time", "Symbol", "Side", "Price", "Qty", "Route", "Broker",
                 "Account", "Type", "Cloid"}

\* len(trades_df.columns) > 10 (line 140).
ColumnThreshold == 10

HasColumn(d, col) == col \in Range(d.columns)

CellOf(row, col) == IF col \in DOMAIN row.cells THEN row.cells[col] ELSE NaN

\* trades_df[col].isna().all(): the required columns hold a value in every
\* row; vacuously true of a frame with no rows.
AllNa(d, col) ==
  \A i \in DOMAIN d.rows :
     col \notin Range(required_columns) /\ isna(CellOf(d.rows[i], col))

\* col.startswith('Unnamed:') or col == ''
IsUnnamed(col) == col \in {"", "Unnamed: 5", "Unnamed: 6", "Unnamed: 9", "Unnamed: 10"}

\* trades_df['Date'] = trades_df[col].apply(f), for the values `dates` the
\* function gives row by row: sets the column in place, appending it to
\* the columns when it is new.
WithDateColumn(d, dates) ==
  [columns |-> IF HasColumn(d, "Date") THEN d.columns ELSE Append(d.columns, "Date"),
   rows |-> [i \in DOMAIN d.rows |->
               [d.rows[i] EXCEPT !.cells =
                  [c \in (DOMAIN d.rows[i].cells) \cup {"Date"} |->
                     IF c = "Date" THEN dates[i] ELSE d.rows[i].cells[c]]]]]

\* A variant of KeepRow that keeps every row.
KeepAny(row) == TRUE

\* lambda x: x[0] is not None
KeepRow(row) == row.cells["Date"].ymd[1] # None

\* trades_df[trades_df['Date'].apply(lambda x: x[0] is not None)]
DropUnparsedDates(d) == [d EXCEPT !.rows = SelectSeq(d.rows, KeepRow)]

\* ------------------------------------------------------------------------
\* Date-source detection (generate_pinescript, lines 123-162)
\* ------------------------------------------------------------------------

\* A variant of ScanColumns that takes the left-most such column.
ScanFromLeft(d, last_col_idx) ==
  LET hits == {i \in 1..last_col_idx :
                 ~AllNa(d, d.columns[i]) /\ d.columns[i] \notin KnownColumns}
  IN IF hits = {} THEN 0 ELSE CHOOSE i \in hits : \A j \in hits : i <= j

\* A variant of ScanColumns that passes over the anonymous columns.
ScanNamed(d, last_col_idx) ==
  LET hits == {i \in 1..last_col_idx :
                 /\ ~AllNa(d, d.columns[i])
                 /\ d.columns[i] \notin KnownColumns
                 /\ ~IsUnnamed(d.columns[i])}
  IN IF hits = {} THEN 0 ELSE CHOOSE i \in hits : \A j \in hits : i >= j

\* The while loop of lines 129-137: the index of the chosen column, 0 if none.
RECURSIVE ScanColumns(_, _)
ScanColumns(d, last_col_idx) ==
  IF last_col_idx < 1 THEN 0
  ELSE IF ~AllNa(d, d.columns[last_col_idx]) /\ d.columns[last_col_idx] \notin KnownColumns
       THEN last_col_idx
       ELSE ScanColumns(d, last_col_idx - 1)

\* The for loop of lines 142-148: the first unnamed column with data, 0 if none.
RECURSIVE ScanUnnamed(_, _)
ScanUnnamed(d, idx) ==
  IF idx > Len(d.columns) THEN 0
  ELSE IF IsUnnamed(d.columns[idx]) /\ ~AllNa(d, d.columns[idx]) THEN idx
       ELSE ScanUnnamed(d, idx + 1)

CloidDate(row) == parse_date_from_cloid(CellOf(row, "Cloid"))

\* valid_dates.any()
AnyValidDate(d) == \E i \in DOMAIN d.rows : d.rows[i].cells["Date"].ymd[1] # None

NoSource == [has_date_column |-> FALSE, date_column_name |-> "None", date_source |-> "None"]

Source(name, how) == [has_date_column |-> TRUE, date_column_name |-> name, date_source |-> how]

\* Lines 150-162, on the frame with the 'Date' column of line 153 set.
TryCloid(tried) ==
  [src |-> IF AnyValidDate(tried) THEN Source("Cloid", "cloid_parsed") ELSE NoSource,
   df |-> tried]

\* Lines 139-162, when the scan of lines 129-137 found nothing.
NoExplicit(d, unnamed) ==
  IF unnamed # 0
    THEN [src |-> Source(d.columns[unnamed], "unnamed_column"), df |-> d]
  ELSE IF HasColumn(d, "Cloid")
    THEN TryCloid(WithDateColumn(d, [i \in DOMAIN d.rows |-> CloidDate(d.rows[i])]))
  ELSE [src |-> NoSource, df |-> d]

Resolve(d, explicit) ==
  IF explicit # 0
    THEN [src |-> Source(d.columns[explicit], "explicit_column"), df |-> d]
  ELSE NoExplicit(d, IF Len(d.columns) > ColumnThreshold THEN ScanUnnamed(d, 1) ELSE 0)

\* Lines 123-162: the resolved source and the frame as the Cloid attempt
\* leaves it (the caller's frame gains a 'Date' column there).
DetectDateSource(d) == Resolve(d, ScanColumns(d, Len(d.columns)))

\* ------------------------------------------------------------------------
\* Date parsing and filtering (generate_pinescript, lines 164-171)
\* ------------------------------------------------------------------------

\* Lines 165-171, given the detected source: `df` is the caller's frame
\* after the step (line 167 sets its 'Date' column in place) and
\* `trades_df` the filtered frame the local name is rebound to.
Filtered(d) == [df |-> d, trades_df |-> DropUnparsedDates(d)]

FilterDates(d, src) ==
  IF src.has_date_column /\ src.date_source # "cloid_parsed"
    THEN Filtered(WithDateColumn(d, [i \in DOMAIN d.rows |->
                                       parse_date(CellOf(d.rows[i], src.date_column_name))]))
  ELSE IF src.has_date_column
    THEN [df |-> d, trades_df |-> DropUnparsedDates(d)]
  ELSE [df |-> d, trades_df |-> d]

\* ------------------------------------------------------------------------
\* consolidate_trades (lines 94-118)
\* ------------------------------------------------------------------------

\* The 'Date' value of a frame without a 'Date' column.
NoDate == [kind |-> "absent", s |-> <<>>, ymd |-> <<>>]

\* A group key: (Time, Side, Price) and, when the frame has a 'Date'
\* column, Date.
GroupKey(d, row) ==
  [Time |-> row.Time, Side |-> row.Side, Price |-> row.Price,
   Date |-> IF HasColumn(d, "Date") THEN row.cells["Date"] ELSE NoDate]

RECURSIVE TupleLess(_, _)
TupleLess(a, b) == IF a = <<>> \/ b = <<>> THEN a = <<>> /\ b # <<>>
                   ELSE IF Head(a) # Head(b) THEN Head(a) < Head(b)
                   ELSE TupleLess(Tail(a), Tail(b))

\* groupby's sorted order of the keys.
KeyLess(a, b) ==
  IF a.Time # b.Time THEN StrLess(a.Time, b.Time)
  ELSE IF a.Side # b.Side THEN StrLess(a.Side, b.Side)
  ELSE IF a.Price # b.Price THEN a.Price < b.Price
  ELSE TupleLess(a.Date.ymd, b.Date.ymd)

RECURSIVE SortKeys(_)
SortKeys(keys) ==
  IF keys = {} THEN <<>>
  ELSE LET first == CHOOSE k \in keys : \A o \in keys \ {k} : KeyLess(k, o)
       IN <<first>> \o SortKeys(keys \ {first})

\* group['Qty'].sum() over the rows of one group.
RECURSIVE SumQty(_, _, _)
SumQty(d, rows, key) ==
  IF rows = <<>> THEN 0
  ELSE (IF GroupKey(d, Head(rows)) = key THEN Head(rows).Qty ELSE 0)
       + SumQty(d, Tail(rows), key)

EmptyFrame == [columns |-> <<>>, rows |-> <<>>]

\* Lines 103-118: one record per group, in the sorted order of the keys.
Consolidated(trades_df, symbol_trades, keys) ==
  IF keys = <<>> THEN EmptyFrame
  ELSE [columns |-> <<"Time", "Side", "Price", "Qty">>
                    \o (IF HasColumn(trades_df, "Date") THEN <<"Date">> ELSE <<>>),
        rows |-> [i \in DOMAIN keys |->
                    [Time |-> keys[i].Time, Side |-> keys[i].Side,
                     Price |-> keys[i].Price,
                     Qty |-> SumQty(trades_df, symbol_trades, keys[i]),
                     Date |-> keys[i].Date]]]

\* groupby leaves out a row with a missing value in a key column
\* (dropna=True): a missing 'Date', the other three being required fields.
HasKey(d, row) == ~(HasColumn(d, "Date") /\ isna(CellOf(row, "Date")))

Grouped(trades_df, symbol_trades) ==
  Consolidated(trades_df, symbol_trades,
               SortKeys({GroupKey(trades_df, symbol_trades[i]) :
                           i \in {j \in DOMAIN symbol_trades : HasKey(trades_df, symbol_trades[j])}}))

consolidate_trades(trades_df, symbol) ==
  LET OfSymbol(row) == row.Symbol = symbol
  IN Grouped(trades_df, SelectSeq(trades_df.rows, OfSymbol))

\* ------------------------------------------------------------------------
\* Rendering (generate_pinescript, lines 180-546)
\* ------------------------------------------------------------------------

\* The script is kept as its parts rather than as text: the match function
\* it defines, the per-trade directive lines, the plotshape calls, the
\* label blocks, the summary counts, the price levels and the alerts.

\* A variant of OfSide that compares the first character of the side only.
OfSideInitial(symbol_trades, side) ==
  LET IsSide(trade) == trade.Side # <<>> /\ Head(trade.Side) = Head(side)
  IN SelectSeq(symbol_trades.rows, IsSide)

\* symbol_trades[symbol_trades['Side'] == side].reset_index(drop=True)
OfSide(symbol_trades, side) ==
  LET IsSide(trade) == trade.Side = side
  IN SelectSeq(symbol_trades.rows, IsSide)

\* buy_trade_{i+1}, sell_trade_{i+1}, short_trade_{i+1}
TradeVar(prefix, n) == [prefix |-> prefix, n |-> n]

Skipped == [emitted |-> FALSE, var |-> TradeVar("", 0), func |-> "", args |-> <<>>,
            price |-> 0, qty |-> 0]

\* One pass of a directive loop (lines 299-309, 316-326, 333-343) or of a
\* label loop (380-393, 399-412, 418-431) for the trade at position n:
\* nothing when the time does not parse, else a call of is_trade_datetime
\* or is_trade_time.
CallLine(dated, prefix, trade, n, hms, ymd) ==
  IF hms[1] = None THEN Skipped
  ELSE IF dated /\ ymd[1] # None
    THEN [emitted |-> TRUE, var |-> TradeVar(prefix, n), func |-> "is_trade_datetime",
          args |-> ymd \o hms, price |-> trade.Price, qty |-> trade.Qty]
  ELSE [emitted |-> TRUE, var |-> TradeVar(prefix, n), func |-> "is_trade_time",
        args |-> hms, price |-> trade.Price, qty |-> trade.Qty]

TradeCall(symbol_trades, has_date_column, prefix, trade, n) ==
  CallLine(has_date_column /\ HasColumn(symbol_trades, "Date"), prefix, trade, n,
           parse_time(trade.Time),
           IF trade.Date.kind = "tuple" THEN trade.Date.ymd ELSE <<None, None, None>>)

IsEmitted(line) == line.emitted

TradeCalls(symbol_trades, has_date_column, prefix, trades) ==
  SelectSeq([n \in DOMAIN trades |->
               TradeCall(symbol_trades, has_date_column, prefix, trades[n], n)],
            IsEmitted)

\* Lines 350-351, 358-359, 366-367: one plotshape call per trade of the side.
PlotCalls(prefix, trades) == [n \in DOMAIN trades |-> TradeVar(prefix, n)]

\* Lines 508-518: the joined variable names; alertcondition is written
\* only for a non-empty join.
AlertTerms(prefix, trades) == [n \in DOMAIN trades |-> TradeVar(prefix, n)]

\* A variant of AlertCondition that writes the call for an empty join too.
AlertConditionAlways(title, terms) == <<[title |-> title, terms |-> terms]>>

\* Lines 513-518: if buy_alerts: script_lines.append(alertcondition(...))
AlertCondition(title, terms) ==
  IF terms # <<>> THEN <<[title |-> title, terms |-> terms]>> ELSE <<>>

SetMin(S) == CHOOSE x \in S : \A y \in S : x <= y

SetMax(S) == CHOOSE x \in S : \A y \in S : x >= y

\* Lines 493-505: min_price, max_price and mid_price = (min + max) / 2,
\* the last kept as its double.
Levels(min_price, max_price) ==
  [min_price |-> min_price, max_price |-> max_price, mid_price_x2 |-> min_price + max_price]

LevelsOf(all_prices) == Levels(SetMin(all_prices), SetMax(all_prices))

PriceLevels(symbol_trades) ==
  LevelsOf({symbol_trades.rows[i].Price : i \in DOMAIN symbol_trades.rows})

\* Lines 464-479: the last row of the summary table.
DateSourceText(src) ==
  IF ~src.has_date_column THEN "Date Aware: No"
  ELSE CASE src.date_source = "explicit_column" -> "Column"
         [] src.date_source = "unnamed_column" -> "Unnamed"
         [] src.date_source = "cloid_parsed" -> "Cloid"
         [] OTHER -> "Yes"

\* The script from the three sides' trades (lines 180-183) and their
\* directive and label lines.
Assemble(symbol_trades, symbol, src, buy_trades, sell_trades, short_trades, buy_lines, sell_lines, short_lines) ==
  [ticker |-> symbol,
   function |-> IF src.has_date_column THEN "is_trade_datetime" ELSE "is_trade_time",
   directives |-> buy_lines \o sell_lines \o short_lines,
   plots |-> PlotCalls("buy_trade", buy_trades) \o PlotCalls("sell_trade", sell_trades)
             \o PlotCalls("short_trade", short_trades),
   labels |-> buy_lines \o sell_lines \o short_lines,
   buy_count |-> Len(buy_trades),
   sell_count |-> Len(sell_trades),
   short_count |-> Len(short_trades),
   total_count |-> Len(buy_trades) + Len(sell_trades) + Len(short_trades),
   date_source_text |-> DateSourceText(src),
   levels |-> PriceLevels(symbol_trades),
   buy_alerts |-> AlertTerms("buy_trade", buy_trades),
   sell_alerts |-> AlertTerms("sell_trade", sell_trades),
   short_alerts |-> AlertTerms("short_trade", short_trades),
   alerts |-> AlertCondition("Buy Trade", AlertTerms("buy_trade", buy_trades))
              \o AlertCondition("Sell Trade", AlertTerms("sell_trade", sell_trades))
              \o AlertCondition("Short Trade", AlertTerms("short_trade", short_trades))]

RenderSides(symbol_trades, symbol, src, buy_trades, sell_trades, short_trades) ==
  Assemble(symbol_trades, symbol, src, buy_trades, sell_trades, short_trades,
           TradeCalls(symbol_trades, src.has_date_column, "buy_trade", buy_trades),
           TradeCalls(symbol_trades, src.has_date_column, "sell_trade", sell_trades),
           TradeCalls(symbol_trades, src.has_date_column, "short_trade", short_trades))

Render(symbol_trades, symbol, src) ==
  RenderSides(symbol_trades, symbol, src, OfSide(symbol_trades, <<"B">>),
              OfSide(symbol_trades, <<"S">>), OfSide(symbol_trades, <<"S", "S">>))

\* f"{symbol.lower()}_trades_indicator.pine"
DefaultOutput(symbol) ==
  lower(symbol) \o <<"_", "t", "r", "a", "d", "e", "s", "_", "i", "n", "d", "i", "c",
                     "a", "t", "o", "r", ".", "p", "i", "n", "e">>

\* ------------------------------------------------------------------------
\* The generated Pine functions (template lines 216-250 and 257-285)
\* ------------------------------------------------------------------------

\* A variant of math_round that truncates, as a division of two integers
\* would.
math_trunc(num, den) == num \div den

\* math.round(num / den) for num >= 0, den >= 1: Pine divides a parameter
\* by timeframe.in_seconds() as floats and rounds to the nearest integer,
\* ties upwards.
math_round(num, den) == (2 * num + den) \div (2 * den)

\* rounded_sec = math.round(second_val / tf_seconds) * tf_seconds
RoundedSec(second_val, tf_seconds) == math_round(second_val, tf_seconds) * tf_seconds

\* A variant of Adjusted that wraps the second and carries nothing.
AdjustedSecondOnly(hour_val, minute_val, rounded_sec) ==
  <<hour_val, minute_val, rounded_sec % 60>>

\* A variant of Adjusted that lets the hour pass 23.
AdjustedNoHourWrap(hour_val, minute_val, rounded_sec) ==
  IF rounded_sec >= 60
    THEN IF minute_val + 1 >= 60
           THEN <<hour_val + 1, minute_val + 1 - 60, rounded_sec - 60>>
           ELSE <<hour_val, minute_val + 1, rounded_sec - 60>>
    ELSE <<hour_val, minute_val, rounded_sec>>

\* Lines 229-245 (and 267-283): the nested overflow handling, giving
\* <<adjusted_hour, adjusted_minute, adjusted_second>>.
Adjusted(hour_val, minute_val, rounded_sec) ==
  IF rounded_sec >= 60
    THEN IF minute_val + 1 >= 60
           THEN IF hour_val + 1 >= 24
                  THEN <<hour_val + 1 - 24, minute_val + 1 - 60, rounded_sec - 60>>
                  ELSE <<hour_val + 1, minute_val + 1 - 60, rounded_sec - 60>>
           ELSE <<hour_val, minute_val + 1, rounded_sec - 60>>
    ELSE <<hour_val, minute_val, rounded_sec>>

\* A variant of DateMatch that lets any date pass.
DateIgnored(func, ymd, bar) == TRUE

\* date_match (line 224); is_trade_time has no date test.
DateMatch(func, ymd, bar) ==
  func = "is_trade_datetime" =>
     bar.year = ymd[1] /\ bar.month = ymd[2] /\ bar.dayofmonth = ymd[3]

\* time_match (lines 247 and 285)
TimeMatch(adjusted, bar) ==
  bar.hour = adjusted[1] /\ bar.minute = adjusted[2] /\ bar.second = adjusted[3]

\* ------------------------------------------------------------------------
\* State
\* ------------------------------------------------------------------------

VARIABLES
  pc,            \* where the run is
  args,          \* the parsed command line: [symbol, output, preview]
  csv,           \* the frame pd.read_csv returned, as first read
  df,            \* main's DataFrame object (generate_pinescript's argument)
  symbol,        \* generate_pinescript's symbol argument
  trades_df,     \* generate_pinescript's local name, rebound by the filter
  src,           \* has_date_column, date_column_name, date_source
  symbol_trades, \* the consolidated frame
  script,        \* <<>> for None, else <<the rendered script>>
  files,         \* the output files written: name -> script
  stdout,        \* the last message printed
  exit_code,     \* main's return value (None before it returns)
  call,          \* a per-trade call of the generated match function
  chart,         \* the chart running the script: ticker, timeframe, bar time
  locals,        \* the match function's local variables
  result,        \* what the match function returned: <<>> or <<BOOLEAN>>
  text,          \* a cell handed to a date parser on its own
  parsed         \* the parser called and the value it returned

vars == <<pc, args, csv, df, symbol, trades_df, src, symbol_trades, script, files,
          stdout, exit_code, call, chart, locals, result, text, parsed>>

runVars == <<args, csv, df, symbol, trades_df, src, symbol_trades, script, files,
             stdout, exit_code>>

matchVars == <<call, chart, locals, result>>

parseVars == <<text, parsed>>

\* ------------------------------------------------------------------------
\* Bounds and input sets
\* ------------------------------------------------------------------------

\* Rows of a CSV file read by main.
MaxRows == 2

\* Rows of a frame handed to generate_pinescript on its own.
MaxFrameRows == 2

\* Columns of such a frame beyond the required and the filler ones.
MaxExtraCols == 2

\* Rows of a frame handed to consolidate_trades on its own.
MaxGroupRows == 2

\* Rows of a frame of trades of several sides.
MaxSummaryRows == 3

\* The longest bar interval, in seconds, of the intervals tried one by one.
MaxInterval == 120

ABC == <<"A", "B", "C">>

XYZ == <<"X", "Y", "Z">>

Time0930 == <<"0", "9", ":", "3", "0", ":", "0", "0">>

Time0930Short == <<"0", "9", ":", "3", "0">>

TimeGarbage == <<"g", "a", "r", "b", "a", "g", "e">>

DateText == <<"2", "0", "2", "5", "-", "0", "5", "-", "1", "4">>

CloidText == <<"Q", "2", "5", "0", "5", "1", "4", "0", "0", "1", "7", "4", "0", "5">>

OutPine == <<"o", "u", "t", ".", "p", "i", "n", "e">>

Buy == <<"B">>

Sell == <<"S">>

Short == <<"S", "S">>

\* A date text (no Cloid), a Cloid text (no date) and the empty field.
CellValues == {NaN, Str(DateText), Str(CloidText)}

\* The values tried in a column: a Cloid column holds Cloids or nothing.
CellValuesOf(col) == IF col = "Cloid" THEN {NaN, Str(CloidText)} ELSE CellValues

ExtraNames == {"Cloid", "Date", "Unnamed: 10"}

FillerNames == <<"Route", "Broker", "Account", "Type">>

InjectiveSeqs(S, n) ==
  {s \in [1..n -> S] : \A i, j \in 1..n : i # j => s[i] # s[j]}

\* The rows of a CSV whose non-required columns are `extras` and `filler`,
\* with the given trade fields; the filler columns hold a route name in
\* every row.
CsvRows(times, symbols, sides, extras, filler) ==
  {[Time |-> t, Symbol |-> s, Side |-> sd, Price |-> 1000, Qty |-> 1,
    cells |-> [c \in Range(extras) \cup Range(filler) |->
                 IF c \in Range(extras) THEN x[c] ELSE Str(<<"X">>)]] :
     t \in times, s \in symbols, sd \in sides,
     x \in {f \in [Range(extras) -> CellValues] :
              \A c \in Range(extras) : f[c] \in CellValuesOf(c)}}

\* The headers of the CSV files main reads: the required columns alone,
\* with a Cloid column, with a date column, or lacking a required column.
MainHeaders == {required_columns,
                required_columns \o <<"Cloid">>,
                required_columns \o <<"Date">>,
                <<"Time", "Symbol", "Side", "Price">>,
                <<"Symbol", "Side", "Price", "Qty", "Date">>}

MainRows(columns) ==
  LET IsExtra(col) == col \notin Range(required_columns)
  IN CsvRows({Time0930, TimeGarbage}, {ABC, XYZ}, {Buy, Sell, Short},
             SelectSeq(columns, IsExtra), <<>>)

ArgsSet == [symbol : {<<>>, <<"a", "b", "c">>}, output : {<<>>, OutPine},
            preview : BOOLEAN]

NoArgs == [symbol |-> <<>>, output |-> <<>>, preview |-> FALSE]

NoFiles == [n \in {} |-> <<>>]

NoCall == [func |-> "", symbol |-> <<>>, ymd |-> <<>>, hms |-> <<>>]

NoChart == [ticker |-> <<>>, tf_seconds |-> 1, year |-> 0, month |-> 0, dayofmonth |-> 0,
            hour |-> 0, minute |-> 0, second |-> 0]

NoLocals == [rounded_sec |-> None, adjusted |-> <<>>]

RunIdle ==
  /\ args = NoArgs /\ csv = EmptyFrame /\ df = EmptyFrame /\ symbol = <<>>
  /\ trades_df = EmptyFrame /\ src = NoSource /\ symbol_trades = EmptyFrame
  /\ script = <<>> /\ files = NoFiles /\ stdout = "" /\ exit_code = None

MatchIdle == call = NoCall /\ chart = NoChart /\ locals = NoLocals /\ result = <<>>

NotParsed == [func |-> "", value |-> NoneTuple]

ParseIdle == text = NaN /\ parsed = NotParsed

\* ------------------------------------------------------------------------
\* main (lines 580-650) and generate_pinescript (lines 120-578)
\* ------------------------------------------------------------------------

Init == pc = "start" /\ RunIdle /\ MatchIdle /\ ParseIdle

\* parser.parse_args() (line 587)
ParseArgs ==
  /\ pc = "start"
  /\ \E a \in ArgsSet : args' = a
  /\ pc' = "read_csv"
  /\ UNCHANGED <<csv, df, symbol, trades_df, src, symbol_trades, script, files,
                 stdout, exit_code, matchVars, parseVars>>

\* parse_args() on a bad command line: argparse raises SystemExit(2)
\* outside main's try block; main returns nothing.
UsageError ==
  /\ pc = "start"
  /\ pc' = "exited"
  /\ stdout' = "usage"
  /\ UNCHANGED <<args, csv, df, symbol, trades_df, src, symbol_trades, script, files,
                 exit_code, matchVars, parseVars>>

Return(code, message) ==
  /\ pc' = "returned"
  /\ exit_code' = code
  /\ stdout' = message

\* pd.read_csv (line 593)
ReadCsv ==
  /\ pc = "read_csv"
  /\ \E columns \in MainHeaders : \E n \in 0..MaxRows :
       \E rows \in [1..n -> MainRows(columns)] :
          /\ csv' = [columns |-> columns, rows |-> rows]
          /\ df' = csv'
  /\ pc' = "check_columns"
  /\ UNCHANGED <<args, symbol, trades_df, src, symbol_trades, script, files,
                 stdout, exit_code, matchVars, parseVars>>

\* pd.read_csv raises FileNotFoundError (lines 645-647)
FileNotFound ==
  /\ pc = "read_csv"
  /\ Return(1, "Error: File not found")
  /\ UNCHANGED <<args, csv, df, symbol, trades_df, src, symbol_trades, script, files,
                 matchVars, parseVars>>

\* pd.read_csv raises another error, e.g. on an empty file (lines 648-650)
ReadError ==
  /\ pc = "read_csv"
  /\ Return(1, "Error: {e}")
  /\ UNCHANGED <<args, csv, df, symbol, trades_df, src, symbol_trades, script, files,
                 matchVars, parseVars>>

missing_columns(d) ==
  LET Missing(col) == ~HasColumn(d, col)
  IN SelectSeq(required_columns, Missing)

\* Lines 598-605
MissingColumns ==
  /\ pc = "check_columns"
  /\ missing_columns(df) # <<>>
  /\ Return(1, "Error: Missing required columns")
  /\ UNCHANGED <<args, csv, df, symbol, trades_df, src, symbol_trades, script, files,
                 matchVars, parseVars>>

\* Lines 608-629
Preview ==
  /\ pc = "check_columns"
  /\ missing_columns(df) = <<>>
  /\ args.preview
  /\ Return(0, "Available symbols in CSV")
  /\ UNCHANGED <<args, csv, df, symbol, trades_df, src, symbol_trades, script, files,
                 matchVars, parseVars>>

\* Lines 632-635
SymbolRequired ==
  /\ pc = "check_columns"
  /\ missing_columns(df) = <<>>
  /\ ~args.preview
  /\ args.symbol = <<>>
  /\ Return(1, "Error: Symbol is required")
  /\ UNCHANGED <<args, csv, df, symbol, trades_df, src, symbol_trades, script, files,
                 matchVars, parseVars>>

\* Line 638: generate_pinescript(df, args.symbol.upper(), args.output);
\* trades_df names the caller's frame.
CallGenerate ==
  /\ pc = "check_columns"
  /\ missing_columns(df) = <<>>
  /\ ~args.preview
  /\ args.symbol # <<>>
  /\ symbol' = upper(args.symbol)
  /\ trades_df' = df
  /\ pc' = "detect"
  /\ UNCHANGED <<args, csv, df, src, symbol_trades, script, files, stdout, exit_code,
                 matchVars, parseVars>>

\* Lines 123-162
DetectStep ==
  /\ pc = "detect"
  /\ LET found == DetectDateSource(trades_df)
     IN src' = found.src /\ df' = found.df /\ trades_df' = found.df
  /\ pc' = "filter"
  /\ UNCHANGED <<args, csv, symbol, symbol_trades, script, files, stdout, exit_code,
                 matchVars, parseVars>>

\* Lines 164-171
FilterStep ==
  /\ pc = "filter"
  /\ LET filtered == FilterDates(trades_df, src)
     IN df' = filtered.df /\ trades_df' = filtered.trades_df
  /\ pc' = "consolidate"
  /\ UNCHANGED <<args, csv, symbol, src, symbol_trades, script, files, stdout,
                 exit_code, matchVars, parseVars>>

\* symbol_trades.empty (line 176)
empty(frame) == frame.rows = <<>>

\* A variant of ConsolidateStep that opens the output file before it
\* looks at the consolidated trades.
ConsolidateOpenFirst ==
  /\ pc = "consolidate"
  /\ symbol_trades' = consolidate_trades(trades_df, symbol)
  /\ files' = (DefaultOutput(symbol) :> <<>>) @@ files
  /\ IF empty(symbol_trades')
       THEN /\ stdout' = "No trades found for symbol"
            /\ script' = <<>>
            /\ pc' = "generate_returned"
       ELSE /\ pc' = "render"
            /\ UNCHANGED <<stdout, script>>
  /\ UNCHANGED <<args, csv, df, symbol, trades_df, src, exit_code, matchVars, parseVars>>

\* Lines 173-178: consolidate, and return None when nothing is left.
ConsolidateStep ==
  /\ pc = "consolidate"
  /\ symbol_trades' = consolidate_trades(trades_df, symbol)
  /\ IF empty(symbol_trades')
       THEN /\ stdout' = "No trades found for symbol"
            /\ script' = <<>>
            /\ pc' = "generate_returned"
       ELSE /\ pc' = "render"
            /\ UNCHANGED <<stdout, script>>
  /\ UNCHANGED <<args, csv, df, symbol, trades_df, src, files, exit_code, matchVars, parseVars>>

\* Lines 180-546: script_content
RenderStep ==
  /\ pc = "render"
  /\ script' = <<Render(symbol_trades, symbol, src)>>
  /\ pc' = "write"
  /\ UNCHANGED <<args, csv, df, symbol, trades_df, src, symbol_trades, files, stdout,
                 exit_code, matchVars, parseVars>>

output_file == IF args.output = <<>> THEN DefaultOutput(symbol) ELSE args.output

\* Lines 549-578: write the file and return script_content.
WriteStep ==
  /\ pc = "write"
  /\ files' = (output_file :> script[1]) @@ files
  /\ stdout' = "Pine Script indicator generated"
  /\ pc' = "generate_returned"
  /\ UNCHANGED <<args, csv, df, symbol, trades_df, src, symbol_trades, script,
                 exit_code, matchVars, parseVars>>

\* open(output_file, 'w') raises (line 552), e.g. for a directory that does
\* not exist: the error reaches main's handlers (lines 645-650).
OpenFails ==
  /\ pc = "write"
  /\ Return(1, "Error: File not found")
  /\ UNCHANGED <<args, csv, df, symbol, trades_df, src, symbol_trades, script, files,
                 matchVars, parseVars>>

\* A variant of ReturnMain that does not look at what generate_pinescript
\* returned.
ReturnMainZero ==
  /\ pc = "generate_returned"
  /\ exit_code' = 0
  /\ pc' = "returned"
  /\ UNCHANGED <<args, csv, df, symbol, trades_df, src, symbol_trades, script, files,
                 stdout, matchVars, parseVars>>

\* Lines 640-643
ReturnMain ==
  /\ pc = "generate_returned"
  /\ IF script = <<>> THEN exit_code' = 1 ELSE exit_code' = 0
  /\ pc' = "returned"
  /\ UNCHANGED <<args, csv, df, symbol, trades_df, src, symbol_trades, script, files,
                 stdout, matchVars, parseVars>>

Next ==
  \/ ParseArgs \/ UsageError
  \/ ReadCsv \/ FileNotFound \/ ReadError
  \/ MissingColumns \/ Preview \/ SymbolRequired \/ CallGenerate
  \/ DetectStep \/ FilterStep \/ ConsolidateStep \/ RenderStep
  \/ WriteStep \/ OpenFails \/ ReturnMain

Spec == Init /\ [][Next]_vars

\* ------------------------------------------------------------------------
\* generate_pinescript called on its own
\* ------------------------------------------------------------------------

\* The rows of the frames tried: one buy of ABC at 09:30:00 per row, any
\* cell value in each extra column.
FrameRows(extras, filler) == CsvRows({Time0930}, {ABC}, {Buy}, extras, filler)

\* generate_pinescript(frame, "ABC"): the frame has the required columns,
\* with or without the four filler columns, then up to MaxExtraCols
\* columns named from ExtraNames, in any order.
InitGenerate ==
  /\ pc = "detect"
  /\ \E filler \in {<<>>, FillerNames} : \E k \in 0..MaxExtraCols :
       \E extras \in InjectiveSeqs(ExtraNames, k) : \E n \in 0..MaxFrameRows :
          \E rows \in [1..n -> FrameRows(extras, filler)] :
             csv = [columns |-> required_columns \o filler \o extras, rows |-> rows]
  /\ df = csv
  /\ trades_df = csv
  /\ args = [symbol |-> ABC, output |-> <<>>, preview |-> FALSE]
  /\ symbol = ABC
  /\ src = NoSource /\ symbol_trades = EmptyFrame /\ script = <<>> /\ files = NoFiles
  /\ stdout = "" /\ exit_code = None
  /\ MatchIdle
  /\ ParseIdle

NextGenerate == DetectStep \/ FilterStep \/ ConsolidateStep \/ RenderStep \/ WriteStep

SpecGenerate == InitGenerate /\ [][NextGenerate]_vars

\* ------------------------------------------------------------------------
\* consolidate_trades called on its own
\* ------------------------------------------------------------------------



\* The rows of the frames tried, with the 'Date' values given; no 'Date'
\* cell when none is given.
GroupRows(dates) ==
  {[Time |-> t, Symbol |-> s, Side |-> sd, Price |-> p, Qty |-> q, cells |-> c] :
     t \in {Time0930, Time0930Short}, s \in {ABC, XYZ}, sd \in {Buy, Sell, Short},
     p \in {1000, 1050}, q \in {50, 100},
     c \in IF dates = {} THEN {[x \in {} |-> NaN]}
                         ELSE {[x \in {"Date"} |-> d] : d \in dates}}

\* consolidate_trades(frame, "ABC") on the frames generate_pinescript can
\* hand it: without a 'Date' column, with parsed dates (after the filter),
\* with the (None, None, None) of a Cloid column no row of which gave a
\* date, or with the empty 'Date' column of a CSV.
InitConsolidate ==
  /\ pc = "consolidate"
  /\ \E dates \in {{}, {Tup(2025, 5, 14), Tup(2025, 5, 15)}, {NoneTuple}, {NaN}} :
     \E n \in 0..MaxGroupRows :
       \E rows \in [1..n -> GroupRows(dates)] :
          trades_df = [columns |-> required_columns
                                     \o (IF dates = {} THEN <<>> ELSE <<"Date">>),
                       rows |-> rows]
  /\ csv = trades_df
  /\ df = trades_df
  /\ args = [symbol |-> ABC, output |-> <<>>, preview |-> FALSE]
  /\ symbol = ABC
  /\ src = NoSource /\ symbol_trades = EmptyFrame /\ script = <<>> /\ files = NoFiles
  /\ stdout = "" /\ exit_code = None
  /\ MatchIdle
  /\ ParseIdle

NextConsolidate == ConsolidateStep

SpecConsolidate == InitConsolidate /\ [][NextConsolidate]_vars

\* ------------------------------------------------------------------------
\* The generated match function on a chart bar
\* ------------------------------------------------------------------------

\* Chart bar intervals in seconds: 1 s to 45 s, then 1, 2, 5 and 15 min.
Timeframes == {1, 5, 10, 15, 30, 45, 60, 120, 300, 900}

Hours == {0, 9, 23}

Minutes == {0, 30, 32, 59}

Seconds == 0..59

SecondsOfDay(hms) == hms[1] * 3600 + hms[2] * 60 + hms[3]

\* The bars tried for a trade: the chart bar its time falls in, the next
\* one, and the day's first; bars open at multiples of the interval
\* counted from midnight.
BarOpens(hms, tf_seconds) ==
  {(SecondsOfDay(hms) \div tf_seconds) * tf_seconds,
   (((SecondsOfDay(hms) \div tf_seconds) + 1) * tf_seconds) % 86400,
   0}

\* A per-trade call as a directive line makes it, and a bar of the chart
\* the script runs on.
InitMatch ==
  /\ pc = "call"
  /\ RunIdle
  /\ \E func \in {"is_trade_datetime", "is_trade_time"} :
     \E h \in Hours : \E m \in Minutes : \E s \in Seconds :
       call = [func |-> func, symbol |-> ABC,
               ymd |-> IF func = "is_trade_datetime" THEN <<2025, 5, 14>> ELSE <<>>,
               hms |-> <<h, m, s>>]
  /\ \E ticker \in {ABC, XYZ} : \E tf \in Timeframes : \E day \in {14, 15} :
     \E open \in BarOpens(call.hms, tf) :
       chart = [ticker |-> ticker, tf_seconds |-> tf, year |-> 2025, month |-> 5,
                dayofmonth |-> day, hour |-> open \div 3600,
                minute |-> (open % 3600) \div 60, second |-> open % 60]
  /\ locals = NoLocals
  /\ result = <<>>
  /\ ParseIdle

\* Lines 217-218 (258-259): another symbol's chart.
WrongTicker ==
  /\ pc = "call"
  /\ chart.ticker # call.symbol
  /\ result' = <<FALSE>>
  /\ pc' = "done"
  /\ UNCHANGED <<runVars, parseVars, call, chart, locals>>

\* Lines 221-227 (262-265)
RoundSeconds ==
  /\ pc = "call"
  /\ chart.ticker = call.symbol
  /\ locals' = [locals EXCEPT !.rounded_sec = RoundedSec(call.hms[3], chart.tf_seconds)]
  /\ pc' = "rounded"
  /\ UNCHANGED <<runVars, parseVars, call, chart, result>>

\* Lines 229-245 (267-283)
CarryOverflow ==
  /\ pc = "rounded"
  /\ locals' = [locals EXCEPT !.adjusted = Adjusted(call.hms[1], call.hms[2],
                                                     locals.rounded_sec)]
  /\ pc' = "adjusted"
  /\ UNCHANGED <<runVars, parseVars, call, chart, result>>

\* Lines 224 and 247-250 (285)
CompareBar ==
  /\ pc = "adjusted"
  /\ result' = <<DateMatch(call.func, call.ymd, chart) /\ TimeMatch(locals.adjusted, chart)>>
  /\ pc' = "done"
  /\ UNCHANGED <<runVars, parseVars, call, chart, locals>>

NextMatch == WrongTicker \/ RoundSeconds \/ CarryOverflow \/ CompareBar

SpecMatch == InitMatch /\ [][NextMatch]_vars

\* ------------------------------------------------------------------------
\* The generated Pine functions at every bar interval
\* ------------------------------------------------------------------------

\* A per-trade call at any hour of the day and any second of the minute,
\* on a chart of the symbol at an interval of 1 s to MaxInterval s; the
\* bar is the first of the day.
InitAdjust ==
  /\ pc = "call"
  /\ RunIdle
  /\ \E func \in {"is_trade_datetime", "is_trade_time"} :
     \E h \in 0..23 : \E m \in Minutes : \E s \in Seconds :
       call = [func |-> func, symbol |-> ABC,
               ymd |-> IF func = "is_trade_datetime" THEN <<2025, 5, 14>> ELSE <<>>,
               hms |-> <<h, m, s>>]
  /\ \E tf \in 1..MaxInterval :
       chart = [ticker |-> ABC, tf_seconds |-> tf, year |-> 2025, month |-> 5,
                dayofmonth |-> 14, hour |-> 0, minute |-> 0, second |-> 0]
  /\ locals = NoLocals
  /\ result = <<>>
  /\ ParseIdle

NextAdjust == RoundSeconds \/ CarryOverflow \/ CompareBar

SpecAdjust == InitAdjust /\ [][NextAdjust]_vars

\* ------------------------------------------------------------------------
\* generate_pinescript on trades of several sides
\* ------------------------------------------------------------------------

Trade(t, s, sd, p, q) ==
  [Time |-> t, Symbol |-> s, Side |-> sd, Price |-> p, Qty |-> q, cells |-> [x \in {} |-> NaN]]

\* The rows tried (prices in cents): two buys of ABC at 09:30:00 and 10.00,
\* a buy, a sell and a short at 09:31:00 and 10.50, a row of a side that is none
\* of B, S, SS, a row of another symbol and a row whose time does not
\* parse.
SummaryRows ==
  {Trade(Time0930, ABC, Buy, 1000, 100),
   Trade(Time0930, ABC, Buy, 1000, 50),
   Trade(<<"0", "9", ":", "3", "1", ":", "0", "0">>, ABC, Buy, 1050, 100),
   Trade(<<"0", "9", ":", "3", "1", ":", "0", "0">>, ABC, Sell, 1050, 200),
   Trade(<<"0", "9", ":", "3", "1", ":", "0", "0">>, ABC, Short, 1050, 200),
   Trade(Time0930, ABC, <<"X">>, 1000, 50),
   Trade(Time0930, XYZ, Buy, 1000, 100),
   Trade(TimeGarbage, ABC, Sell, 1050, 200)}

\* generate_pinescript(frame, "ABC"): the frame has the required columns
\* only and up to MaxSummaryRows rows.
InitSummary ==
  /\ pc = "detect"
  /\ \E n \in 0..MaxSummaryRows : \E rows \in [1..n -> SummaryRows] :
        csv = [columns |-> required_columns, rows |-> rows]
  /\ df = csv
  /\ trades_df = csv
  /\ args = [symbol |-> ABC, output |-> <<>>, preview |-> FALSE]
  /\ symbol = ABC
  /\ src = NoSource /\ symbol_trades = EmptyFrame /\ script = <<>> /\ files = NoFiles
  /\ stdout = "" /\ exit_code = None
  /\ MatchIdle
  /\ ParseIdle

SpecSummary == InitSummary /\ [][NextGenerate]_vars

\* ------------------------------------------------------------------------
\* The date parsers called on their own
\* ------------------------------------------------------------------------

\* Identifiers: a letter, a digit, a space and a letter, or nothing, then
\* three two-character fields and a tail; and two that are too short.
CloidInputs ==
  {pre \o yy \o mm \o dd \o suf :
     pre \in {<<"Q">>, <<"a">>, <<"2">>, <<" ", "Q">>, <<>>},
     yy \in {<<"2", "5">>, <<"0", "0">>, <<"9", "9">>},
     mm \in {<<"0", "0">>, <<"0", "1">>, <<"0", "2">>, <<"0", "5">>, <<"1", "2">>,
             <<"1", "3">>, <<"0", "a">>},
     dd \in {<<"0", "0">>, <<"0", "1">>, <<"1", "4">>, <<"3", "0">>, <<"3", "1">>,
             <<"3", "2">>},
     suf \in {<<>>, <<"0", "0", "1", "7", "4", "0", "5">>, <<" ">>}}
  \cup {<<"Q">>, <<"Q", "2", "5", "0", "5", "1">>}

\* Date texts: three numbers of one, two or four digits, joined by "/",
\* "-" or nothing, with or without a space before and after.
DateInputs ==
  {pad \o a \o sep \o b \o sep \o c \o pad :
     pad \in {<<>>, <<" ">>},
     a \in {<<"1">>, <<"0", "1">>, <<"0", "2">>, <<"1", "3">>, <<"3", "0">>, <<"3", "1">>,
            <<"2", "4">>, <<"2", "0", "2", "4">>},
     b \in {<<"1">>, <<"0", "1">>, <<"0", "2">>, <<"1", "3">>, <<"3", "0">>, <<"3", "1">>,
            <<"2", "4">>, <<"2", "0", "2", "4">>},
     c \in {<<"1">>, <<"0", "1">>, <<"0", "2">>, <<"1", "3">>, <<"3", "0">>, <<"3", "1">>,
            <<"2", "4">>, <<"2", "0", "2", "4">>},
     sep \in {<<"/">>, <<"-">>, <<>>}}

\* A cell of a date or Cloid column: empty, the empty string, or a text.
InitParse ==
  /\ pc = "parse"
  /\ RunIdle
  /\ MatchIdle
  /\ text \in {NaN, Str(<<>>)} \cup {Str(s) : s \in CloidInputs \cup DateInputs}
  /\ parsed = NotParsed

\* parse_date(text)
ParseDate ==
  /\ pc = "parse"
  /\ parsed' = [func |-> "parse_date", value |-> parse_date(text)]
  /\ pc' = "parsed"
  /\ UNCHANGED <<runVars, matchVars, text>>

\* parse_date_from_cloid(text)
ParseCloid ==
  /\ pc = "parse"
  /\ parsed' = [func |-> "parse_date_from_cloid", value |-> parse_date_from_cloid(text)]
  /\ pc' = "parsed"
  /\ UNCHANGED <<runVars, matchVars, text>>

NextParse == ParseDate \/ ParseCloid

SpecParse == InitParse /\ [][NextParse]_vars

\* ------------------------------------------------------------------------
\* Properties of the match function (SpecMatch)
\* ------------------------------------------------------------------------

Abs(x) == IF x < 0 THEN -x ELSE x

\* <<hour, minute, second>> of a time of day given in seconds.
HMS(t) == <<t \div 3600, (t % 3600) \div 60, t % 60>>

\* The chart's bar that opens `open` seconds after midnight.
BarAt(open) ==
  [chart EXCEPT !.hour = HMS(open)[1], !.minute = HMS(open)[2], !.second = HMS(open)[3]]

\* The multiple of tf nearest to second s, the larger of two equally near.
NearestMultiple(s, tf) ==
  CHOOSE r \in {k * tf : k \in 0..60} :
    \A k \in 0..60 : \/ Abs(r - s) < Abs(k * tf - s)
                     \/ Abs(r - s) = Abs(k * tf - s) /\ r >= k * tf

\* The trade's time with its second replaced by the nearest multiple of
\* tf, as a time of day.
ExpectedTime(hms, tf) ==
  HMS((hms[1] * 3600 + hms[2] * 60 + NearestMultiple(hms[3], tf)) % 86400)

\* C2: whatever the trade time and the bar interval, the match function's
\* time test holds for some chart bar, the bars opening at the multiples
\* of the interval counted from midnight. (The adjusted time lies within
\* half an interval of the trade, so the only bars that can match are the
\* ones of BarOpens.)
C2_AlignsToSomeBar ==
  pc = "adjusted" =>
     \E open \in BarOpens(call.hms, chart.tf_seconds) :
        TimeMatch(locals.adjusted, BarAt(open))

\* C3: the rounded second is the multiple of the bar interval nearest to
\* the trade's second, the larger one on a tie; second 47 at 10 s becomes
\* 50, and second 58 at 10 s becomes 60, which is second 0 of the next
\* minute.
C3_RoundsToNearestMultiple ==
  pc \in {"rounded", "adjusted"} =>
     /\ locals.rounded_sec % chart.tf_seconds = 0
     /\ \A k \in 0..60 :
          \/ Abs(locals.rounded_sec - call.hms[3]) < Abs(k * chart.tf_seconds - call.hms[3])
          \/ /\ Abs(locals.rounded_sec - call.hms[3]) = Abs(k * chart.tf_seconds - call.hms[3])
             /\ locals.rounded_sec >= k * chart.tf_seconds
     /\ (call.hms[3] = 47 /\ chart.tf_seconds = 10) => locals.rounded_sec = 50
     /\ (call.hms[3] = 58 /\ chart.tf_seconds = 10) => locals.rounded_sec = 60
     /\ (pc = "adjusted" /\ call.hms[3] = 58 /\ chart.tf_seconds = 10 /\ call.hms[2] < 59)
          => locals.adjusted = <<call.hms[1], call.hms[2] + 1, 0>>

C3_Witness ==
  /\ pc = "adjusted"
  /\ call.hms = <<9, 30, 58>>
  /\ chart.tf_seconds = 10
  /\ locals.rounded_sec = 60
  /\ locals.adjusted = <<9, 31, 0>>

\* The carries of a rounded second r into minute m and hour h.
Carried(h, m, r, c1, c2) ==
  <<IF h + c2 >= 24 THEN h + c2 - 24 ELSE h + c2, m + c1 - 60 * c2, r - 60 * c1>>

CarriedTime(h, m, r) ==
  Carried(h, m, r, IF r >= 60 THEN 1 ELSE 0, IF r >= 60 /\ m + 1 >= 60 THEN 1 ELSE 0)

\* C4: a rounded second >= 60 loses 60 and carries 1 into the minute, a
\* minute >= 60 loses 60 and carries 1 into the hour, an hour >= 24 loses
\* 24, and nothing is carried into the date: the adjusted time is the time
\* of day of hour, minute and rounded second modulo a day, and a dated
\* trade matches only bars of its own date, so that 23:59:58 at 10 s is
\* matched at 00:00:00 of the trade's date.
C4_CarryPropagates ==
  (pc \in {"adjusted", "done"} /\ chart.ticker = call.symbol) =>
     /\ locals.adjusted = CarriedTime(call.hms[1], call.hms[2], locals.rounded_sec)
     /\ locals.adjusted[1] \in 0..23
     /\ locals.adjusted[2] \in 0..59
     /\ locals.adjusted[3] \in 0..59
     /\ SecondsOfDay(locals.adjusted)
          = (call.hms[1] * 3600 + call.hms[2] * 60 + locals.rounded_sec) % 86400
     /\ (pc = "done" /\ call.func = "is_trade_datetime" /\ result = <<TRUE>>)
          => <<chart.year, chart.month, chart.dayofmonth>> = call.ymd
     /\ (pc = "done" /\ call.func = "is_trade_datetime" /\ call.hms = <<23, 59, 58>>
           /\ chart.tf_seconds = 10)
          => result = <<chart.dayofmonth = 14
                          /\ <<chart.hour, chart.minute, chart.second>> = <<0, 0, 0>>>>

C4_Witness ==
  /\ pc = "done"
  /\ call.func = "is_trade_datetime"
  /\ call.hms = <<23, 59, 58>>
  /\ call.ymd = <<2025, 5, 14>>
  /\ chart.tf_seconds = 10
  /\ locals.adjusted = <<0, 0, 0>>
  /\ chart.dayofmonth = 14
  /\ result = <<TRUE>>

\* C5: the match function answers true for a bar exactly when the chart's
\* symbol is the trade's, the bar's date is the trade's date if the
\* function is the date-aware one, and the bar's time is the trade's
\* rounded and carried time; the time-only function compares no date, so
\* it matches bars of any day.
C5_MatchesIff ==
  pc = "done" =>
     result = << /\ chart.ticker = call.symbol
                 /\ call.func = "is_trade_datetime"
                      => <<chart.year, chart.month, chart.dayofmonth>> = call.ymd
                 /\ <<chart.hour, chart.minute, chart.second>>
                      = ExpectedTime(call.hms, chart.tf_seconds) >>

C5_Witness ==
  /\ pc = "done"
  /\ call.func = "is_trade_time"
  /\ chart.ticker = call.symbol
  /\ chart.dayofmonth = 15
  /\ call.hms = <<9, 32, 47>>
  /\ chart.tf_seconds = 10
  /\ <<chart.hour, chart.minute, chart.second>> = <<9, 32, 50>>
  /\ result = <<TRUE>>

\* ------------------------------------------------------------------------
\* Properties of consolidate_trades (SpecConsolidate)
\* ------------------------------------------------------------------------

\* The rows of trades_df whose Symbol is the requested one.
SymbolRows == {i \in DOMAIN trades_df.rows : trades_df.rows[i].Symbol = symbol}

\* The (date, time, side, price) key of a row of trades_df and of a
\* consolidated trade; the date of a frame without a 'Date' column is NoDate.
RowKey(row) ==
  <<IF HasColumn(trades_df, "Date") THEN CellOf(row, "Date") ELSE NoDate,
    row.Time, row.Side, row.Price>>

TradeKey(trade) == <<trade.Date, trade.Time, trade.Side, trade.Price>>

\* The sum of Qty over a set of rows of trades_df.
RECURSIVE QtySum(_)
QtySum(S) ==
  IF S = {} THEN 0
  ELSE LET i == CHOOSE x \in S : TRUE
       IN trades_df.rows[i].Qty + QtySum(S \ {i})

\* The rows of the requested symbol with a consolidated trade's key.
RowsOf(trade) == {i \in SymbolRows : RowKey(trades_df.rows[i]) = TradeKey(trade)}

\* C1: once consolidate_trades has run, every (date, time, side, price) key
\* among the requested symbol's rows has exactly one consolidated trade,
\* and every consolidated trade has the key of some such row and the sum
\* of the quantities of the rows with that key, so that none combines
\* rows of different sides, prices or symbols.
C1_OneTradePerKey ==
  pc \in {"render", "generate_returned"} =>
     /\ \A i \in SymbolRows :
          Cardinality({j \in DOMAIN symbol_trades.rows :
                         TradeKey(symbol_trades.rows[j]) = RowKey(trades_df.rows[i])}) = 1
     /\ \A j \in DOMAIN symbol_trades.rows :
          /\ RowsOf(symbol_trades.rows[j]) # {}
          /\ symbol_trades.rows[j].Qty = QtySum(RowsOf(symbol_trades.rows[j]))

\* ------------------------------------------------------------------------
\* Properties of a run of main (Spec)
\* ------------------------------------------------------------------------

\* What a run prints when it ends on a fatal outcome.
FatalMessages == {"Error: Missing required columns", "Error: File not found",
                  "Error: Symbol is required", "No trades found for symbol"}

\* C6: a run that ends on a fatal outcome (a missing required column, a
\* file not found, no symbol given, no trades left for the symbol) has
\* written no output file; generate_pinescript returns None exactly when
\* no consolidated trade is left, and then no file exists; a file that
\* exists is the one output file and holds the whole script.
C6_AllOrNothing ==
  /\ stdout \in FatalMessages => files = NoFiles
  /\ (pc = "returned" /\ exit_code = 1) => files = NoFiles
  /\ pc = "generate_returned" => (empty(symbol_trades) <=> script = <<>>)
  /\ (pc \in {"generate_returned", "returned"} /\ script = <<>>) => files = NoFiles
  /\ files # NoFiles =>
       /\ script # <<>>
       /\ DOMAIN files = {output_file}
       /\ files[output_file] = script[1]

C6_Witness ==
  /\ pc = "returned"
  /\ stdout = "No trades found for symbol"
  /\ csv.rows # <<>>
  /\ empty(symbol_trades)
  /\ script = <<>>
  /\ exit_code = 1
  /\ files = NoFiles

\* C7: main has returned nothing before it ends and returns 0 or 1 when
\* it does: 0 exactly when the script was generated or the preview was
\* printed, and 1 on missing required columns, no trades for the symbol,
\* a file not found and any other error raised.
C7_ExitCodes ==
  /\ pc # "returned" => exit_code = None
  /\ pc = "returned" =>
       /\ exit_code \in {0, 1}
       /\ exit_code = 0 <=> \/ stdout = "Pine Script indicator generated" /\ files # NoFiles
                            \/ stdout = "Available symbols in CSV" /\ args.preview
       /\ stdout \in FatalMessages \cup {"Error: {e}"} => exit_code = 1

C7_Witness ==
  /\ pc = "returned"
  /\ exit_code = 0
  /\ ~args.preview
  /\ script # <<>>
  /\ files # NoFiles

\* The variables the directive lines of a script define.
DefinedVars(s) == {s.directives[i].var : i \in DOMAIN s.directives}

\* C8: a trade whose time does not parse leaves no trace in the script:
\* every directive carries an hour, minute and second, every plot call
\* and every alert term names a variable a directive defines, and the
\* summary counts count the directives.
C8_UnparsedTimeExcluded ==
  script # <<>> =>
     /\ \A i \in DOMAIN script[1].directives :
          \A k \in DOMAIN script[1].directives[i].args : script[1].directives[i].args[k] # None
     /\ Range(script[1].plots) \subseteq DefinedVars(script[1])
     /\ Range(script[1].buy_alerts) \cup Range(script[1].sell_alerts)
          \cup Range(script[1].short_alerts) \subseteq DefinedVars(script[1])
     /\ script[1].total_count = Len(script[1].directives)
     /\ script[1].buy_count + script[1].sell_count + script[1].short_count
          = Len(script[1].labels)

\* ------------------------------------------------------------------------
\* Properties of generate_pinescript (SpecGenerate)
\* ------------------------------------------------------------------------

\* A column of the CSV holds a value in some row.
HasData(col) ==
  \E r \in DOMAIN csv.rows :
     col \in Range(required_columns) \/ ~isna(CellOf(csv.rows[r], col))

\* The columns an explicit date column is looked for among, by position.
ExplicitCandidates ==
  {i \in DOMAIN csv.columns : HasData(csv.columns[i]) /\ csv.columns[i] \notin KnownColumns}

\* The anonymous columns with a value, looked at in a wide CSV only.
UnnamedCandidates ==
  {i \in DOMAIN csv.columns :
     /\ Len(csv.columns) > ColumnThreshold
     /\ IsUnnamed(csv.columns[i])
     /\ HasData(csv.columns[i])}

CloidGivesDate ==
  /\ HasColumn(csv, "Cloid")
  /\ \E r \in DOMAIN csv.rows :
       parse_date_from_cloid(CellOf(csv.rows[r], "Cloid")).ymd[1] # None

\* The source the priority order gives, for the explicit and the
\* anonymous candidates of the CSV.
SourcePriority(explicit, unnamed) ==
  /\ explicit # {} => src = Source(csv.columns[SetMax(explicit)], "explicit_column")
  /\ (explicit = {} /\ unnamed # {})
       => src = Source(csv.columns[SetMin(unnamed)], "unnamed_column")
  /\ (explicit = {} /\ unnamed = {} /\ CloidGivesDate)
       => src = Source("Cloid", "cloid_parsed")
  /\ (explicit = {} /\ unnamed = {} /\ ~CloidGivesDate)
       => /\ src = NoSource
          /\ script # <<>> => script[1].function = "is_trade_time"

\* C9: the date source resolved for a CSV is one strategy for all its
\* rows, fixed from the detection on: the right-most column with a value
\* and a name that is no known trade field; failing that, in a CSV wider
\* than the threshold, the first anonymous column with a value; failing
\* that, the Cloid column if some row's Cloid gives a valid date; failing
\* that, none, and a script then written is a time-only one.
C9_SourcePriority ==
  pc # "detect" => SourcePriority(ExplicitCandidates, UnnamedCandidates)

C9_Witness ==
  /\ pc = "filter"
  /\ Len(csv.columns) > ColumnThreshold
  /\ Cardinality(ExplicitCandidates) = 2
  /\ HasData("Date")
  /\ src = Source("Unnamed: 10", "explicit_column")
  /\ csv.columns[Len(csv.columns)] = "Unnamed: 10"

\* The date the resolved source gives a row of the CSV.
SourceDate(row) ==
  IF src.date_source = "cloid_parsed" THEN parse_date_from_cloid(CellOf(row, "Cloid"))
  ELSE parse_date(CellOf(row, src.date_column_name))

DatedRow(row) == SourceDate(row).ymd[1] # None

\* The trade fields of a row.
TradeOf(row) == <<row.Time, row.Symbol, row.Side, row.Price, row.Qty>>

\* trades_df holds the rows `kept`, each with its parsed date.
HoldsDated(kept) ==
  /\ Len(trades_df.rows) = Len(kept)
  /\ \A i \in DOMAIN kept :
       /\ TradeOf(trades_df.rows[i]) = TradeOf(kept[i])
       /\ trades_df.rows[i].cells["Date"] = SourceDate(kept[i])

\* C10: with a date source resolved, the frame handed to consolidate_trades
\* is the CSV's rows whose date parses, so every consolidated trade has a
\* (year, month, day); and the script, which then defines is_trade_datetime, calls it
\* in every directive and label and never calls is_trade_time.
C10_UnparsedDatesDropped ==
  (src.has_date_column /\ pc \in {"consolidate", "render", "write", "generate_returned"}) =>
     /\ pc = "consolidate" => HoldsDated(SelectSeq(csv.rows, DatedRow))
     /\ \A j \in DOMAIN symbol_trades.rows :
          /\ symbol_trades.rows[j].Date.kind = "tuple"
          /\ symbol_trades.rows[j].Date.ymd[1] # None
     /\ script # <<>> =>
          /\ script[1].function = "is_trade_datetime"
          /\ \A i \in DOMAIN script[1].directives :
               script[1].directives[i].func = "is_trade_datetime"
          /\ \A i \in DOMAIN script[1].labels :
               script[1].labels[i].func = "is_trade_datetime"

C10_Witness ==
  /\ pc = "generate_returned"
  /\ src.has_date_column
  /\ Len(trades_df.rows) < Len(csv.rows)
  /\ script # <<>>
  /\ script[1].directives # <<>>
  /\ files # NoFiles

\* ------------------------------------------------------------------------
\* Properties of the date parsers (SpecParse)
\* ------------------------------------------------------------------------

Letters == Range(Uppers) \cup Range(Lowers)

\* The number two digit characters write.
TwoDigits(a, b) == 10 * DigitVal(a) + DigitVal(b)

\* (2000 + YY, MM, DD) of the identifier s when s is a letter, then six
\* digits YYMMDD with MM in 1..12 and DD in 1..31; the failure value
\* otherwise.
DateOfIdentifier(s) ==
  IF /\ Len(s) >= 7
     /\ s[1] \in Letters
     /\ \A i \in 2..7 : s[i] \in Range(Digits)
     /\ TwoDigits(s[4], s[5]) \in 1..12
     /\ TwoDigits(s[6], s[7]) \in 1..31
  THEN Tup(2000 + TwoDigits(s[2], s[3]), TwoDigits(s[4], s[5]), TwoDigits(s[6], s[7]))
  ELSE NoneTuple

\* The characters of a cell; none for an empty cell.
TextOf(cell) == IF cell.kind = "str" THEN cell.s ELSE <<>>

\* C11 (as stated): parse_date_from_cloid returns (2000 + YY, MM, DD)
\* exactly when the identifier's first character is a letter and its next
\* six are digits YYMMDD with MM in 1..12 and DD in 1..31, and the failure
\* value otherwise.
C11_LetterThenYYMMDD ==
  (pc = "parsed" /\ parsed.func = "parse_date_from_cloid")
     => parsed.value = DateOfIdentifier(TextOf(text))

\* C11 (amended): the same of the identifier with the white space around
\* it removed: an identifier written after a space is parsed as well.
C11_StrippedLetterThenYYMMDD ==
  (pc = "parsed" /\ parsed.func = "parse_date_from_cloid")
     => parsed.value = DateOfIdentifier(strip(TextOf(text)))

C11_Witness ==
  /\ pc = "parsed"
  /\ parsed.func = "parse_date_from_cloid"
  /\ text = Str(<<" ">> \o CloidText)
  /\ parsed.value = Tup(2025, 5, 14)

\* The formats in the order the specification lists them: YYYY-MM-DD,
\* MM/DD/YYYY, MM/DD/YY, YYYYMMDD, MM-DD-YYYY, DD/MM/YYYY.
FormatOrder == << <<"%Y", "-", "%m", "-", "%d">>,
                  <<"%m", "/", "%d", "/", "%Y">>,
                  <<"%m", "/", "%d", "/", "%y">>,
                  <<"%Y", "%m", "%d">>,
                  <<"%m", "-", "%d", "-", "%Y">>,
                  <<"%d", "/", "%m", "/", "%Y">> >>

\* Format k of the list accepts the text s.
Accepts(s, k) == strptime(strip(s), FormatOrder[k]).ok

\* No format of the list before k accepts s.
NoneEarlier(s, k) == \A j \in 1..(k - 1) : ~Accepts(s, j)

DateOf(r) == Tup(r.year, r.month, r.day)

\* The date format k reads in s.
DateBy(s, k) == DateOf(strptime(strip(s), FormatOrder[k]))

\* C12: parse_date returns the date read by the first format of the list,
\* in the listed order, that accepts the text, so that a text more than
\* one format accepts is read by the earlier one, and it fails exactly
\* when no format accepts the text.
C12_FirstFormatWins ==
  (pc = "parsed" /\ parsed.func = "parse_date")
     => /\ \A k \in DOMAIN FormatOrder :
             (Accepts(TextOf(text), k) /\ NoneEarlier(TextOf(text), k))
                => parsed.value = DateBy(TextOf(text), k)
        /\ parsed.value = NoneTuple
             <=> \A k \in DOMAIN FormatOrder : ~Accepts(TextOf(text), k)

\* 01/02/2024 is accepted month-first (the second format) and day-first
\* (the sixth), and read month-first.
C12_Witness ==
  /\ pc = "parsed"
  /\ parsed.func = "parse_date"
  /\ text = Str(<<"0", "1", "/", "0", "2", "/", "2", "0", "2", "4">>)
  /\ Accepts(TextOf(text), 2)
  /\ Accepts(TextOf(text), 6)
  /\ parsed.value = Tup(2024, 1, 2)

\* ------------------------------------------------------------------------
\* Properties of the script's summary and alerts (SpecSummary)
\* ------------------------------------------------------------------------

\* The (time, price) keys of the symbol's rows of the CSV with the side sd:
\* one consolidated trade of that side each.
SideKeys(sd) ==
  {<<csv.rows[i].Time, csv.rows[i].Price>> :
     i \in {j \in DOMAIN csv.rows : csv.rows[j].Symbol = symbol /\ csv.rows[j].Side = sd}}

\* The positions of the consolidated trades of side sd.
SideTrades(sd) == {i \in DOMAIN symbol_trades.rows : symbol_trades.rows[i].Side = sd}

AllSidesKnown == \A i \in DOMAIN csv.rows : csv.rows[i].Side \in {Buy, Sell, Short}

\* The rows of the end-to-end example.
ExampleRows ==
  <<Trade(Time0930, ABC, Buy, 1000, 100),
    Trade(Time0930, ABC, Buy, 1000, 50),
    Trade(<<"0", "9", ":", "3", "1", ":", "0", "0">>, ABC, Sell, 1050, 200)>>

\* The quantities of the directive lines of the variables named prefix_n.
QtyOf(s, prefix) ==
  {s.directives[i].qty : i \in {j \in DOMAIN s.directives : s.directives[j].var.prefix = prefix}}

\* C13: the Buy, Sell and Short counts of the script are the numbers of
\* consolidated trades of side B, S and SS of the symbol, Total is their
\* sum, and, when every Side of the input is B, S or SS, the number of the
\* symbol's consolidated trades; the example's rows give Buy=1 with
\* quantity 150, Sell=1 with quantity 200, Short=0, Total=2.
C13_SummaryCounts ==
  script # <<>> =>
     /\ script[1].buy_count = Cardinality(SideTrades(Buy))
     /\ script[1].sell_count = Cardinality(SideTrades(Sell))
     /\ script[1].short_count = Cardinality(SideTrades(Short))
     /\ script[1].buy_count = Cardinality(SideKeys(Buy))
     /\ script[1].sell_count = Cardinality(SideKeys(Sell))
     /\ script[1].short_count = Cardinality(SideKeys(Short))
     /\ script[1].total_count
          = script[1].buy_count + script[1].sell_count + script[1].short_count
     /\ AllSidesKnown => script[1].total_count = Len(symbol_trades.rows)
     /\ csv.rows = ExampleRows
          => /\ script[1].buy_count = 1 /\ QtyOf(script[1], "buy_trade") = {150}
             /\ script[1].sell_count = 1 /\ QtyOf(script[1], "sell_trade") = {200}
             /\ script[1].short_count = 0
             /\ script[1].total_count = 2

C13_Witness ==
  /\ script # <<>>
  /\ csv.rows = ExampleRows
  /\ script[1].buy_count = 1
  /\ script[1].sell_count = 1
  /\ script[1].total_count = 2

\* The three sides: the Side value, the prefix of the per-trade variables
\* and the title of the alert.
Sides ==
  {[side |-> Buy, prefix |-> "buy_trade", title |-> "Buy Trade"],
   [side |-> Sell, prefix |-> "sell_trade", title |-> "Sell Trade"],
   [side |-> Short, prefix |-> "short_trade", title |-> "Short Trade"]}

\* The alertcondition calls of the script s with the title given.
AlertsOf(s, title) == {i \in DOMAIN s.alerts : s.alerts[i].title = title}

\* The per-trade variables of n trades of a side.
SideVars(prefix, n) == {TradeVar(prefix, i) : i \in 1..n}

\* C14: the script holds an alert condition of a side exactly when the side
\* has a consolidated trade, and the alert's expression joins that side's
\* per-trade variables: one term per trade of the side, none of another
\* side.
C14_AlertPerSide ==
  script # <<>> =>
     \A sd \in Sides :
        /\ AlertsOf(script[1], sd.title) # {} <=> SideTrades(sd.side) # {}
        /\ Cardinality(AlertsOf(script[1], sd.title)) <= 1
        /\ \A i \in AlertsOf(script[1], sd.title) :
             /\ Len(script[1].alerts[i].terms) = Cardinality(SideTrades(sd.side))
             /\ Range(script[1].alerts[i].terms)
                  = SideVars(sd.prefix, Cardinality(SideTrades(sd.side)))

\* Two buys and a short: a buy alert of two terms, a short alert of one,
\* and no sell alert.
C14_Witness ==
  /\ script # <<>>
  /\ Cardinality(SideTrades(Buy)) = 2
  /\ Cardinality(SideTrades(Short)) = 1
  /\ AlertsOf(script[1], "Sell Trade") = {}
  /\ \E i \in AlertsOf(script[1], "Buy Trade") : Len(script[1].alerts[i].terms) = 2

\* The variables the plotshape calls and the alert conditions of the
\* script s refer to.
ReferredVars(s) ==
  Range(s.plots) \cup UNION {Range(s.alerts[i].terms) : i \in DOMAIN s.alerts}

\* C16: every per-trade variable a plotshape call or an alert condition of
\* the script refers to is bound by a directive line of the script, also
\* when the time of a consolidated trade does not parse.
C16_EveryVariableBound ==
  script # <<>> => ReferredVars(script[1]) \subseteq DefinedVars(script[1])

\* ------------------------------------------------------------------------
\* More properties of generate_pinescript (SpecGenerate)
\* ------------------------------------------------------------------------

\* C15: generate_pinescript leaves the caller's frame as it was: when it
\* has returned, with a script or without one, the frame has the columns
\* and the values it had at the call.
C15_InputUnchanged ==
  pc = "generate_returned" => (df.columns = csv.columns /\ df.rows = csv.rows)

\* ------------------------------------------------------------------------
\* Properties of the adjusted time (SpecAdjust)
\* ------------------------------------------------------------------------

\* C17: at every hour, minute and second of a trade and every bar interval
\* from 1 s up, also above 60 s, the rounded second is below 120, so that
\* after the one subtraction of 60 and its carries the adjusted time is a
\* time of day: second and minute in 0..59, hour in 0..23; at an interval
\* of 1 s the adjusted time is the trade's time.
C17_AdjustedIsClockTime ==
  /\ pc \in {"rounded", "adjusted", "done"} => locals.rounded_sec \in 0..119
  /\ pc \in {"adjusted", "done"} =>
       /\ locals.adjusted[1] \in 0..23
       /\ locals.adjusted[2] \in 0..59
       /\ locals.adjusted[3] \in 0..59
       /\ chart.tf_seconds = 1 => locals.adjusted = call.hms

\* 23:59:59 at an interval of 100 s: the second rounds to 100 and the
\* adjusted time is 00:00:40.
C17_Witness ==
  /\ pc = "adjusted"
  /\ call.hms = <<23, 59, 59>>
  /\ chart.tf_seconds = 100
  /\ locals.rounded_sec = 100
  /\ locals.adjusted = <<0, 0, 40>>

\* An anonymous column of the CSV holds a value.
AnonymousWithData ==
  \E i \in DOMAIN csv.columns : IsUnnamed(csv.columns[i]) /\ HasData(csv.columns[i])

\* C18: the resolved date source is never the anonymous-column one: when
\* an anonymous column holds a value, the right-to-left scan has selected
\* a column as the explicit one.
C18_NeverUnnamedSource ==
  /\ src.date_source # "unnamed_column"
  /\ (pc # "detect" /\ AnonymousWithData) => src.date_source = "explicit_column"

\* A CSV wider than the threshold whose only column with a value beyond the
\* known ones is the anonymous one: the scan selects it as explicit.
C18_Witness ==
  /\ pc = "consolidate"
  /\ Len(csv.columns) > ColumnThreshold
  /\ AnonymousWithData
  /\ Cardinality(ExplicitCandidates) = 1
  /\ src = Source("Unnamed: 10", "explicit_column")

====
